---- MODULE Spec2Model ----
(***************************************************************************)
(* Rack space allocation and elevation rendering of netbox/dcim/models.py. *)
(*                                                                         *)
(* The state is the content of the Rack, DeviceType and Device tables.     *)
(* Every mutation is one action that builds the model instance, runs its   *)
(* clean() against the current tables and, when clean() accepts, saves     *)
(* the row; a rejected mutation leaves the tables as they are.  The        *)
(* queries (get_available_units, get_rack_units) and the validators are    *)
(* operators over the tables, so a property of theirs is stated for every  *)
(* input in every reachable state.                                         *)
(*                                                                         *)
(* Spec is the rack model (no component templates exist, so devices have   *)
(* no components).  SpecComponents is the model of component templates     *)
(* and their instantiation by Device.save, SpecConnections the one of      *)
(* interfaces and their connections, SpecOrder the one of the ordering of  *)
(* interface names on the names of the docstring, SpecNames the same on    *)
(* names without a slash, SpecPorts the one of the ordering of console     *)
(* server ports, SpecBays the one of device bays over two racks, and       *)
(* SpecConcurrent the one of two placement requests whose validation and   *)
(* save are separate steps.                                                *)
(***************************************************************************)
EXTENDS Integers, Sequences, FiniteSets, TLC

VARIABLES racks, device_types, devices,
          templates,      \* the rows of the six component template tables
          components,     \* the rows of the six device component tables
          connections,    \* the rows of the InterfaceConnection table
          names,          \* the names of the rows of one component table of
                          \* one device (interfaces, or console server
                          \* ports), in table order
          ordered,        \* the names as the last ordered query returned them
          bays,           \* the DeviceBay rows that hold an installed device
          procs           \* the requests that place a device, in progress

vars == <<racks, device_types, devices, templates, components, connections,
          names, ordered, bays, procs>>

(***************************************************************************)
(* Bounds of the model.                                                    *)
(***************************************************************************)
MaxU == 3              \* rack heights and positions range over 1..MaxU
MaxTypeHeight == 3     \* device type heights range over 0..MaxTypeHeight

(***************************************************************************)
(* Constants of the program.                                               *)
(***************************************************************************)
None == -1             \* Python None / SQL NULL of position, face, exclude
RACK_FACE_FRONT == 0
RACK_FACE_REAR == 1
SUBDEVICE_ROLE_NONE == "none"
SUBDEVICE_ROLE_PARENT == "parent"
SUBDEVICE_ROLE_CHILD == "child"
IFACE_FF_VIRTUAL == 0
IFACE_FF_1GE_FIXED == 1000

Racks == {1}
TypeIds == {1, 2, 3}
DevicePks == {1, 2}
Faces == {RACK_FACE_FRONT, RACK_FACE_REAR}

\* DeviceType.is_child_device
is_child_device(t, types) == types[t].subdevice_role = SUBDEVICE_ROLE_CHILD

\* truth value of an optional integer field: None and 0 are false
Truthy(x) == x # None /\ x # 0

(***************************************************************************)
(* Python list helpers.                                                    *)
(***************************************************************************)
\* range(a, b) as a list
PyRange(a, b) == [i \in 1..(IF b > a THEN b - a ELSE 0) |-> a + i - 1]

Elems(l) == {l[i] : i \in 1..Len(l)}

\* list.remove(x) inside try/except ValueError: pass -- removes the first
\* occurrence of x, and leaves the list as it is when x is not in it.
ListRemove(l, x) ==
    IF x \in Elems(l)
    THEN LET i == CHOOSE j \in 1..Len(l) : l[j] = x /\ \A k \in 1..(j - 1) : l[k] # x
         IN  [k \in 1..(Len(l) - 1) |-> IF k < i THEN l[k] ELSE l[k + 1]]
    ELSE l

\* reversed(l)
Reversed(l) == [i \in 1..Len(l) |-> l[Len(l) + 1 - i]]

(***************************************************************************)
(* Rack.get_available_units                                                *)
(***************************************************************************)
\* for u in range(d.position, d.position + d.device_type.u_height):
\*     units.remove(u)
RECURSIVE RemoveSpan(_, _, _)
RemoveSpan(units, u, stop) ==
    IF u >= stop THEN units
    ELSE RemoveSpan(ListRemove(units, u), u + 1, stop)

\* A variant that does not treat rack_face None as "either face".
FaceMatchesNoNone(rack_face, d, devs, types) ==
    \/ devs[d].face = rack_face
    \/ types[devs[d].device_type].is_full_depth

\* if rack_face is None or d.face == rack_face or d.device_type.is_full_depth
FaceMatches(rack_face, d, devs, types) ==
    \/ rack_face = None
    \/ devs[d].face = rack_face
    \/ types[devs[d].device_type].is_full_depth

\* for d in devices: ... (the devices are visited in primary key order; the
\* units left do not depend on the order)
RECURSIVE RemoveDevices(_, _, _, _, _)
RemoveDevices(units, ds, rack_face, devs, types) ==
    IF ds = {} THEN units
    ELSE LET d == CHOOSE x \in ds : \A y \in ds : x <= y
             h == types[devs[d].device_type].u_height
             p == devs[d].position
             left == IF FaceMatches(rack_face, d, devs, types)
                     THEN RemoveSpan(units, p, p + h)
                     ELSE units
         IN  RemoveDevices(left, ds \ {d}, rack_face, devs, types)

\* A variant that ignores the exclude list.
ConsumingDevicesAll(r, exclude, devs) ==
    {d \in DOMAIN devs : devs[d].rack = r /\ devs[d].position >= 1}

\* A variant that also takes the devices of position 0.
ConsumingDevicesFromZero(r, exclude, devs) ==
    {d \in DOMAIN devs : devs[d].rack = r /\ devs[d].position >= 0 /\ d \notin exclude}

\* self.devices.filter(position__gte=1).exclude(pk__in=exclude)
ConsumingDevices(r, exclude, devs) ==
    {d \in DOMAIN devs : devs[d].rack = r /\ devs[d].position >= 1 /\ d \notin exclude}

\* A variant that only looks at the start unit.
HasSpaceNoCheck(units, u, u_height) == u \in Elems(units)

\* set(range(u, u + u_height)).issubset(units)
HasSpace(units, u, u_height) ==
    \A k \in u..(u + u_height - 1) : k \in Elems(units)

\* A variant that returns the units without reversing them.
AvailableAscending(r, u_height, rack_face, exclude, devs, types, rks) ==
    LET units == RemoveDevices(PyRange(1, rks[r].u_height + 1),
                               ConsumingDevices(r, exclude, devs),
                               rack_face, devs, types)
    IN  SelectSeq(units, LAMBDA u : HasSpace(units, u, u_height))

get_available_units(r, u_height, rack_face, exclude, devs, types, rks) ==
    LET units == RemoveDevices(PyRange(1, rks[r].u_height + 1),
                               ConsumingDevices(r, exclude, devs),
                               rack_face, devs, types)
        available_units == SelectSeq(units, LAMBDA u : HasSpace(units, u, u_height))
    IN  Reversed(available_units)

(***************************************************************************)
(* Rack.get_rack_units.  The elevation is an OrderedDict from unit to      *)
(* record, here the list of its records in key order; device None is 0.   *)
(* elevation[u] raises KeyError for a unit that is not a key, and the      *)
(* exception leaves get_rack_units; elevation.pop(u, None) does not raise. *)
(* The devices are visited in the order of the queryset, given as `order'. *)
(***************************************************************************)
NoDevice == 0

\* Rack.units
units(r, rks) ==
    IF rks[r].desc_units
    THEN PyRange(1, rks[r].u_height + 1)
    ELSE Reversed(PyRange(1, rks[r].u_height + 1))

Keys(elevation) == {elevation[i].id : i \in 1..Len(elevation)}

\* elevation[u]['device'] = device
SetDevice(el, u, device) ==
    IF el.raised THEN el
    ELSE IF u \notin Keys(el.elevation) THEN [raised |-> TRUE, elevation |-> <<>>]
    ELSE [raised |-> FALSE,
          elevation |-> [i \in 1..Len(el.elevation) |->
                           IF el.elevation[i].id = u
                           THEN [id |-> u, device |-> device]
                           ELSE el.elevation[i]]]

\* elevation.pop(u, None)
PopUnit(el, u) ==
    IF el.raised THEN el
    ELSE [raised |-> FALSE,
          elevation |-> SelectSeq(el.elevation, LAMBDA rec : rec.id # u)]

\* for u in range(u, stop): elevation[u]['device'] = device
RECURSIVE SetSpan(_, _, _, _)
SetSpan(el, u, stop, device) ==
    IF u >= stop THEN el
    ELSE SetSpan(SetDevice(el, u, device), u + 1, stop, device)

\* for u in range(u, stop): elevation.pop(u, None)
RECURSIVE PopSpan(_, _, _)
PopSpan(el, u, stop) ==
    IF u >= stop THEN el
    ELSE PopSpan(PopUnit(el, u), u + 1, stop)

\* .exclude(pk=exclude).filter(rack=self, position__gt=0)
\* .filter(Q(face=face) | Q(device_type__is_full_depth=True))
ElevationDevices(r, face, exclude, devs, types) ==
    {d \in DOMAIN devs :
        /\ d # exclude
        /\ devs[d].rack = r
        /\ devs[d].position > 0
        /\ (devs[d].face = face \/ types[devs[d].device_type].is_full_depth)}

RECURSIVE AddDevices(_, _, _, _, _, _, _)
AddDevices(el, order, i, shown, remove_redundant, devs, types) ==
    IF i > Len(order) THEN el
    ELSE IF order[i] \notin shown
    THEN AddDevices(el, order, i + 1, shown, remove_redundant, devs, types)
    ELSE LET device == order[i]
             p == devs[device].position
             h == types[devs[device].device_type].u_height
             el2 == IF remove_redundant
                    THEN PopSpan(SetDevice(el, p, device), p + 1, p + h)
                    ELSE SetSpan(el, p, p + h, device)
         IN  AddDevices(el2, order, i + 1, shown, remove_redundant, devs, types)

get_rack_units(r, face, exclude, remove_redundant, order, devs, types, rks) ==
    LET us == units(r, rks)
        elevation == [i \in 1..Len(us) |-> [id |-> us[i], device |-> NoDevice]]
    IN  AddDevices([raised |-> FALSE, elevation |-> elevation], order, 1,
                   ElevationDevices(r, face, exclude, devs, types),
                   remove_redundant, devs, types)

\* the orders in which a queryset can return the rows of the Device table
Orders == {o \in [1..Cardinality(DevicePks) -> DevicePks] :
              \A i, j \in 1..Cardinality(DevicePks) : i # j => o[i] # o[j]}

\* Rack.get_0u_devices: self.devices.filter(position=0)
get_0u_devices(r, devs) ==
    {d \in DOMAIN devs : devs[d].rack = r /\ devs[d].position = 0}

\* A variant that counts the units free on the front face.
UtilizationFront(r, devs, types, rks) ==
    LET u_available == Len(get_available_units(r, 1, RACK_FACE_FRONT, {},
                                               devs, types, rks))
    IN  ((rks[r].u_height - u_available) * 100) \div rks[r].u_height

\* Rack.get_utilization.  get_available_units() is called with its default
\* arguments u_height=1, rack_face=None, exclude=list().  The quotient is a
\* float and int() truncates it; it is not negative, so the truncation is
\* the floor, here taken of the exact quotient.
get_utilization(r, devs, types, rks) ==
    LET u_available == Len(get_available_units(r, 1, None, {},
                                               devs, types, rks))
    IN  ((rks[r].u_height - u_available) * 100) \div rks[r].u_height

(***************************************************************************)
(* Device.clean: the field of the ValidationError raised, "ok" when none.  *)
(* pk is None for a device that is not saved yet.                          *)
(***************************************************************************)
\* A variant that always queries the device's own face.
CleanRackFaceOwn(face, t, types) == face

\* rack_face = self.face if not self.device_type.is_full_depth else None
CleanRackFace(face, t, types) ==
    IF ~types[t].is_full_depth THEN face ELSE None

Device_clean(pk, t, r, position, face, devs, types, rks) ==
    IF Truthy(position) /\ face = None THEN "face"
    ELSE IF is_child_device(t, types) /\ face # None THEN "face"
    ELSE IF is_child_device(t, types) /\ Truthy(position) THEN "position"
    ELSE LET rack_face == CleanRackFace(face, t, types)
             exclude_list == IF pk # None THEN {pk} ELSE {}
             available_units == get_available_units(r, types[t].u_height, rack_face,
                                                    exclude_list, devs, types, rks)
         IN  IF Truthy(position) /\ position \notin Elems(available_units)
             THEN "position"
             ELSE "ok"

\* Meta.unique_together = ['rack', 'position', 'face']: rows with a NULL in
\* one of the columns never collide.
UniqueTogether(pk, r, position, face, devs) ==
    \/ position = None
    \/ face = None
    \/ \A o \in DOMAIN devs \ {pk} :
          ~(devs[o].rack = r /\ devs[o].position = position /\ devs[o].face = face)


(***************************************************************************)
(* Rack.clean for an existing rack whose height is set to u_height.        *)
(* order_by('-position').first() picks a device of the highest position;   *)
(* among devices of the same position (on different faces) the database    *)
(* is free to return either, so the outcome is computed per candidate.     *)
(***************************************************************************)
\* Device.objects.filter(rack=self).exclude(position__isnull=True)
RackDevices(r, devs) ==
    {d \in DOMAIN devs : devs[d].rack = r /\ devs[d].position # None}

TopDevices(r, devs) ==
    {d \in RackDevices(r, devs) :
        \A o \in RackDevices(r, devs) : devs[o].position <= devs[d].position}

Rack_clean(r, u_height, top_device, devs, types) ==
    IF top_device = None THEN "ok"
    ELSE LET min_height == devs[top_device].position
                           + types[devs[top_device].device_type].u_height - 1
         IN  IF u_height < min_height THEN "u_height" ELSE "ok"

(***************************************************************************)
(* DeviceType.clean for an existing device type t edited to the height     *)
(* u_height and the depth is_full_depth.  _original_u_height is the height *)
(* the row had when the instance was loaded for the edit.  The other       *)
(* devices of the rack are read from the tables, with the heights stored   *)
(* there.  The checks of lines 602-624 come after the height check and    *)
(* pass: the device types here are network devices and have no console     *)
(* server port, power outlet or device bay template.                       *)
(***************************************************************************)
TypeInstances(t, devs) ==
    {d \in DOMAIN devs : devs[d].device_type = t /\ devs[d].position # None}

InstanceHasRoom(d, u_height, is_full_depth, devs, types, rks) ==
    LET face_required == IF is_full_depth THEN None ELSE devs[d].face
        u_available == get_available_units(devs[d].rack, u_height, face_required,
                                           {d}, devs, types, rks)
    IN  devs[d].position \in Elems(u_available)

DeviceType_clean(t, u_height, is_full_depth, devs, types, rks) ==
    LET _original_u_height == types[t].u_height
    IN  IF /\ u_height > _original_u_height
           /\ \E d \in TypeInstances(t, devs) :
                 ~InstanceHasRoom(d, u_height, is_full_depth, devs, types, rks)
        THEN "u_height"
        ELSE IF Truthy(u_height) /\ types[t].subdevice_role = SUBDEVICE_ROLE_CHILD
        THEN "u_height"
        ELSE "ok"

(***************************************************************************)
(* Component templates and components.  The six template tables            *)
(* (ConsolePortTemplate ... DeviceBayTemplate) are one table of rows       *)
(* tagged with the kind of component they stand for, and so are the six    *)
(* component tables.  Only interfaces have a form_factor and a mgmt_only   *)
(* column; the rows of the other kinds carry None and FALSE there.         *)
(* (device_type, name) is unique per template table and (device, name)     *)
(* per component table.                                                    *)
(***************************************************************************)
Kinds == {"ConsolePort", "ConsoleServerPort", "PowerPort", "PowerOutlet",
          "Interface", "DeviceBay"}

\* A variant that takes every save for the first one.
IsNewAlways(pk, devs) == TRUE

\* is_new = not bool(self.pk)
IsNew(pk, devs) == pk \notin DOMAIN devs

\* the component Device.save builds from a template: ConsolePort(device=self,
\* name=template.name), ..., Interface(device=self, name=template.name,
\* form_factor=template.form_factor, mgmt_only=template.mgmt_only)
Instantiate(template, pk) ==
    IF template.kind = "Interface"
    THEN [device |-> pk, kind |-> "Interface", name |-> template.name,
          form_factor |-> template.form_factor, mgmt_only |-> template.mgmt_only]
    ELSE [device |-> pk, kind |-> template.kind, name |-> template.name,
          form_factor |-> None, mgmt_only |-> FALSE]

\* the rows the six bulk_create calls insert for a new device of type t
NewComponents(pk, t, tpls) ==
    {Instantiate(template, pk) : template \in {x \in tpls : x.device_type = t}}

\* the components of a device
ComponentsOf(pk, comps) == {c \in comps : c.device = pk}

(***************************************************************************)
(* Initial state: one empty rack and a catalogue of three device types:    *)
(* 1 is a full-depth 1U type, 2 a half-depth 1U type, 3 a 0U child type.   *)
(***************************************************************************)
InitTables ==
    /\ racks = [r \in Racks |-> [u_height |-> MaxU, desc_units |-> FALSE]]
    /\ device_types = [t \in TypeIds |->
                         [u_height |-> IF t = 3 THEN 0 ELSE 1,
                          is_full_depth |-> (t = 1),
                          subdevice_role |-> IF t = 3 THEN SUBDEVICE_ROLE_CHILD
                                             ELSE SUBDEVICE_ROLE_NONE]]
    /\ devices = <<>>

\* A request that places a device is handled by one process; the process
\* p places the device of pk p.  A process holds the row it has validated
\* with Device.clean until it saves it; stale records that another
\* request has changed the Device table since the validation.
Procs == DevicePks
NoRequest == [device_type |-> None, rack |-> None, position |-> None, face |-> None]
Idle == [pc |-> "idle", request |-> NoRequest, stale |-> FALSE]

\* the devices installed in the device bays of the device pk:
\* Device.objects.filter(parent_bay__device=self)
Children(pk, bs) == {b.installed_device : b \in {x \in bs : x.device = pk}}

Init ==
    /\ InitTables
    /\ templates = {}
    /\ components = {}
    /\ connections = {}
    /\ names = <<>>
    /\ ordered = <<>>
    /\ bays = {}
    /\ procs = [p \in Procs |-> Idle]

Positions == {None} \cup (0..MaxU)
FaceInputs == {None} \cup Faces

\* Device.clean followed by Device.save, for a new device (pk not in the
\* table yet) or for an existing one.  The save fails on the unique
\* constraint of (rack, position, face).  A new device gets a component
\* per template of its device type, and the devices installed in the
\* device bays of the saved device are moved to its rack (line 911).
DeviceSave(pk, t, r, position, face) ==
    LET is_new == IsNew(pk, devices)
        err == Device_clean(IF pk \in DOMAIN devices THEN pk ELSE None,
                            t, r, position, face, devices, device_types, racks)
        row == [device_type |-> t, rack |-> r, position |-> position, face |-> face]
        saved == err = "ok" /\ UniqueTogether(pk, r, position, face, devices)
    IN  /\ devices' = IF saved
                      THEN [d \in DOMAIN devices \cup {pk} |->
                              IF d = pk THEN row
                              ELSE IF d \in Children(pk, bays)
                              THEN [devices[d] EXCEPT !.rack = r]
                              ELSE devices[d]]
                      ELSE devices
        /\ components' = IF saved /\ is_new
                         THEN components \cup NewComponents(pk, t, templates)
                         ELSE components
        /\ UNCHANGED <<racks, device_types, templates, connections, names, ordered,
                       bays, procs>>

\* Device.delete: the components of the device go with it
\* (on_delete=CASCADE), and with its interfaces their connections; a bay
\* that held the device is empty afterwards (on_delete=SET_NULL).
DeviceDelete(pk) ==
    /\ pk \in DOMAIN devices
    /\ devices' = [d \in DOMAIN devices \ {pk} |-> devices[d]]
    /\ components' = components \ ComponentsOf(pk, components)
    /\ connections' = {c \in connections :
                          c.interface_a[1] # pk /\ c.interface_b[1] # pk}
    /\ bays' = {b \in bays : b.device # pk /\ b.installed_device # pk}
    /\ UNCHANGED <<racks, device_types, templates, names, ordered, procs>>

\* Rack.clean followed by Rack.save
RackSave(r, u_height, desc_units) ==
    /\ \E top_device \in (IF TopDevices(r, devices) = {} THEN {None}
                          ELSE TopDevices(r, devices)) :
          racks' = IF Rack_clean(r, u_height, top_device, devices, device_types) = "ok"
                   THEN [racks EXCEPT ![r] = [u_height |-> u_height,
                                              desc_units |-> desc_units]]
                   ELSE racks
    /\ UNCHANGED <<device_types, devices, templates, components, connections,
                   names, ordered,
                   bays, procs>>

\* DeviceType.clean followed by DeviceType.save
DeviceTypeSave(t, u_height, is_full_depth) ==
    /\ device_types' =
          IF DeviceType_clean(t, u_height, is_full_depth,
                              devices, device_types, racks) = "ok"
          THEN [device_types EXCEPT ![t].u_height = u_height,
                                    ![t].is_full_depth = is_full_depth]
          ELSE device_types
    /\ UNCHANGED <<racks, devices, templates, components, connections,
                   names, ordered,
                   bays, procs>>

\* the device type whose height and depth the operators edit
EditableTypes == {1}

Next ==
    \/ \E pk \in DevicePks, t \in TypeIds, r \in Racks,
          position \in Positions, face \in FaceInputs :
          DeviceSave(pk, t, r, position, face)
    \/ \E pk \in DevicePks : DeviceDelete(pk)
    \/ \E r \in Racks, u_height \in 1..MaxU, desc_units \in BOOLEAN :
          RackSave(r, u_height, desc_units)
    \/ \E t \in EditableTypes, u_height \in 0..MaxTypeHeight, is_full_depth \in BOOLEAN :
          DeviceTypeSave(t, u_height, is_full_depth)

Spec == Init /\ [][Next]_vars

(***************************************************************************)
(* Component templates.  A template row is created or edited by the save   *)
(* of its model and removed by its delete; (device_type, name) is unique   *)
(* within a template table, so a save with the name of an existing row is  *)
(* the edit of that row.                                                   *)
(***************************************************************************)
TemplateKinds == {"ConsolePort", "Interface"}
TemplateNames == {"eth0"}
FormFactors == {IFACE_FF_VIRTUAL, IFACE_FF_1GE_FIXED}

SameTemplate(x, t, kind, name) ==
    x.device_type = t /\ x.kind = kind /\ x.name = name

TemplateSave(t, kind, name, form_factor, mgmt_only) ==
    LET row == IF kind = "Interface"
               THEN [device_type |-> t, kind |-> kind, name |-> name,
                     form_factor |-> form_factor, mgmt_only |-> mgmt_only]
               ELSE [device_type |-> t, kind |-> kind, name |-> name,
                     form_factor |-> None, mgmt_only |-> FALSE]
    IN  /\ templates' = {x \in templates : ~SameTemplate(x, t, kind, name)}
                           \cup {row}
        /\ UNCHANGED <<racks, device_types, devices, components, connections,
                       names, ordered,
                       bays, procs>>

TemplateDelete(t, kind, name) ==
    /\ \E x \in templates : SameTemplate(x, t, kind, name)
    /\ templates' = {x \in templates : ~SameTemplate(x, t, kind, name)}
    /\ UNCHANGED <<racks, device_types, devices, components, connections,
                   names, ordered,
                   bays, procs>>

\* the device types devices are created with
PlainTypes == {1, 2}

NextComponents ==
    \/ \E pk \in DevicePks, t \in PlainTypes, r \in Racks :
          DeviceSave(pk, t, r, None, None)
    \/ \E pk \in DevicePks : DeviceDelete(pk)
    \/ \E t \in EditableTypes, kind \in TemplateKinds, name \in TemplateNames,
          form_factor \in FormFactors, mgmt_only \in BOOLEAN :
          TemplateSave(t, kind, name, form_factor, mgmt_only)
    \/ \E t \in EditableTypes, kind \in TemplateKinds, name \in TemplateNames :
          TemplateDelete(t, kind, name)

SpecComponents == Init /\ [][NextComponents]_vars

(***************************************************************************)
(* Interfaces and interface connections.  An interface is the component    *)
(* row of kind "Interface"; it is named by its key <<device, name>>, which *)
(* is unique.  Circuit terminations belong to another application and are  *)
(* not part of this state: Interface.is_connected is bool(self.connection).*)
(***************************************************************************)
InterfaceNames == {"eth0", "eth1"}

Interfaces(comps) ==
    {<<c.device, c.name>> : c \in {x \in comps : x.kind = "Interface"}}

InterfaceRow(i, comps) ==
    CHOOSE c \in comps : c.kind = "Interface" /\ c.device = i[1] /\ c.name = i[2]

\* Interface.connection: connected_as_a, else connected_as_b, else None
connection(i, conns) ==
    IF \E c \in conns : c.interface_a = i
    THEN {c \in conns : c.interface_a = i}
    ELSE {c \in conns : c.interface_b = i}

is_connected(i, conns) == connection(i, conns) # {}

\* Interface.clean: the field of the ValidationError, "ok" when none
Interface_clean(i, form_factor, conns) ==
    IF form_factor = IFACE_FF_VIRTUAL /\ is_connected(i, conns)
    THEN "form_factor"
    ELSE "ok"

\* A variant that accepts every pair of interfaces.
InterfaceConnection_cleanAny(interface_a, interface_b) == "ok"

\* InterfaceConnection.clean
InterfaceConnection_clean(interface_a, interface_b) ==
    IF interface_a = interface_b THEN "interface_b" ELSE "ok"

\* interface_a and interface_b are OneToOneFields: each column is unique
UniqueEnds(interface_a, interface_b, conns) ==
    \A c \in conns : c.interface_a # interface_a /\ c.interface_b # interface_b

\* Interface.clean followed by Interface.save: a new interface of the
\* device, or the edit of the form factor of an existing one
InterfaceSave(device, name, form_factor) ==
    LET i == <<device, name>>
        row == [device |-> device, kind |-> "Interface", name |-> name,
                form_factor |-> form_factor,
                mgmt_only |-> IF i \in Interfaces(components)
                              THEN InterfaceRow(i, components).mgmt_only
                              ELSE FALSE]
    IN  /\ device \in DOMAIN devices
        /\ components' =
              IF Interface_clean(i, form_factor, connections) = "ok"
              THEN {c \in components :
                       ~(c.kind = "Interface" /\ c.device = device /\ c.name = name)}
                      \cup {row}
              ELSE components
        /\ UNCHANGED <<racks, device_types, devices, templates, connections,
                       names, ordered,
                       bays, procs>>

\* InterfaceConnection.clean followed by InterfaceConnection.save of a new
\* connection; the save fails on the unique constraints of the two columns
InterfaceConnectionSave(interface_a, interface_b) ==
    /\ interface_a \in Interfaces(components)
    /\ interface_b \in Interfaces(components)
    /\ connections' =
          IF /\ InterfaceConnection_clean(interface_a, interface_b) = "ok"
             /\ UniqueEnds(interface_a, interface_b, connections)
          THEN connections \cup {[interface_a |-> interface_a,
                                  interface_b |-> interface_b]}
          ELSE connections
    /\ UNCHANGED <<racks, device_types, devices, templates, components,
                   names, ordered,
                   bays, procs>>

InterfaceConnectionDelete(interface_a, interface_b) ==
    /\ [interface_a |-> interface_a, interface_b |-> interface_b] \in connections
    /\ connections' = connections \ {[interface_a |-> interface_a,
                                       interface_b |-> interface_b]}
    /\ UNCHANGED <<racks, device_types, devices, templates, components,
                   names, ordered,
                   bays, procs>>

NextConnections ==
    \/ \E pk \in DevicePks, r \in Racks : DeviceSave(pk, 1, r, None, None)
    \/ \E pk \in DevicePks : DeviceDelete(pk)
    \/ \E device \in DevicePks, name \in InterfaceNames, form_factor \in FormFactors :
          InterfaceSave(device, name, form_factor)
    \/ \E interface_a, interface_b \in DevicePks \X InterfaceNames :
          InterfaceConnectionSave(interface_a, interface_b)
    \/ \E interface_a, interface_b \in DevicePks \X InterfaceNames :
          InterfaceConnectionDelete(interface_a, interface_b)

SpecConnections == Init /\ [][NextConnections]_vars

(***************************************************************************)
(* DeviceBay.clean for a bay of the device `device' holding                *)
(* installed_device (None for an empty bay).  Both errors are raised as    *)
(* ValidationError(message), without a field: Django files such an error   *)
(* under the key NON_FIELD_ERRORS.                                         *)
(***************************************************************************)
NON_FIELD_ERRORS == "__all__"

\* DeviceType.is_parent_device: bool(self.subdevice_role)
is_parent_device(t, types) == types[t].subdevice_role = SUBDEVICE_ROLE_PARENT

DeviceBay_clean(device, installed_device, devs, types) ==
    IF ~is_parent_device(devs[device].device_type, types) THEN NON_FIELD_ERRORS
    ELSE IF device = installed_device THEN NON_FIELD_ERRORS
    ELSE "ok"

(***************************************************************************)
(* order_interfaces.  A name is the sequence of its characters.  The four  *)
(* extra columns are SUBSTRING(name FROM pattern) cast to integer: the     *)
(* text of the first parenthesised group of the leftmost match of the      *)
(* pattern, NULL when the pattern does not match.  Every pattern is        *)
(* anchored at the end of the name, and a run [0-9]+ in it is followed by  *)
(* "/", ":" or the end, so it takes a whole run of digits up to there.     *)
(***************************************************************************)
DigitChars == <<"0", "1", "2", "3", "4", "5", "6", "7", "8", "9">>
Digits == Elems(DigitChars)
DigitValue(c) == (CHOOSE k \in 1..Len(DigitChars) : DigitChars[k] = c) - 1

\* the index after the digits that start at index i
RECURSIVE DigitsEnd(_, _)
DigitsEnd(s, i) ==
    IF i <= Len(s) /\ s[i] \in Digits THEN DigitsEnd(s, i + 1) ELSE i

\* CAST(... AS integer) of the digits s[i..j-1]
RECURSIVE CastInteger(_, _, _)
CastInteger(s, i, j) ==
    IF j <= i THEN 0
    ELSE CastInteger(s, i, j - 1) * 10 + DigitValue(s[j - 1])

\* (:[0-9]+)?$ matches from index j
MatchesEnd(s, j) ==
    \/ j = Len(s) + 1
    \/ /\ j < Len(s)
       /\ s[j] = ":"
       /\ DigitsEnd(s, j + 1) = Len(s) + 1

\* [0-9]+ followed by `slashes' groups \/[0-9]+ and by (:[0-9]+)?$ matches
\* from index i
RECURSIVE MatchesTail(_, _, _)
MatchesTail(s, i, slashes) ==
    LET j == DigitsEnd(s, i)
    IN  /\ j > i
        /\ IF slashes = 0 THEN MatchesEnd(s, j)
           ELSE /\ j <= Len(s)
                /\ s[j] = "/"
                /\ MatchesTail(s, j + 1, slashes - 1)

\* CAST(SUBSTRING(name FROM '([0-9]+)(\/[0-9]+){slashes}(:[0-9]+)?$') AS integer)
SubstringId(s, slashes) ==
    LET starts == {i \in 1..Len(s) : MatchesTail(s, i, slashes)}
    IN  IF starts = {} THEN None
        ELSE LET i == CHOOSE x \in starts : \A y \in starts : x <= y
             IN  CastInteger(s, i, DigitsEnd(s, i))

_id1(s) == SubstringId(s, 2)
_id2(s) == SubstringId(s, 1)

\* A variant that finds no third field in any name.
_id3Absent(s) == None

_id3(s) == SubstringId(s, 0)

\* CAST(SUBSTRING(name FROM ':([0-9]+)$') AS integer)
_id4(s) ==
    LET starts == {i \in 1..Len(s) :
                      /\ s[i] = ":"
                      /\ i < Len(s)
                      /\ DigitsEnd(s, i + 1) = Len(s) + 1}
    IN  IF starts = {} THEN None
        ELSE LET i == CHOOSE x \in starts : \A y \in starts : x <= y
             IN  CastInteger(s, i + 1, Len(s) + 1)

\* ordering = primary_ordering + ('_id1', '_id2', '_id3', '_id4'); the
\* rows here are of one device, so the primary ordering is the same for all
OrderKey(s) == <<_id1(s), _id2(s), _id3(s), _id4(s)>>

\* A variant that puts NULL before every integer.
BeforeNullsFirst(x, y) == x < y

\* ascending order of one column; the database sorts NULL after every value
Before(x, y) == x # None /\ (y = None \/ x < y)

KeyLess(a, b) ==
    \E k \in 1..Len(a) :
        /\ \A j \in 1..(k - 1) : a[j] = b[j]
        /\ Before(a[k], b[k])

\* the sorted list l with the row x added, after the rows that do not sort
\* after x: rows of equal key stay in table order
InsertRow(l, x) ==
    LET k == Cardinality({i \in 1..Len(l) : ~KeyLess(OrderKey(x), OrderKey(l[i]))})
    IN  SubSeq(l, 1, k) \o <<x>> \o SubSeq(l, k + 1, Len(l))

RECURSIVE SortRows(_, _)
SortRows(rows, n) ==
    IF n = 0 THEN <<>> ELSE InsertRow(SortRows(rows, n - 1), rows[n])

\* order_by(*ordering) over the rows in table order
order_interfaces(rows) == SortRows(rows, Len(rows))

(***************************************************************************)
(* The names of the interfaces of one device, as the docstring of          *)
(* order_interfaces lists them.  The order of the rows in the table is     *)
(* arbitrary: the model starts from every rotation of the list and of its  *)
(* reverse, and exchanges two rows of such an order.                       *)
(***************************************************************************)
DocstringNames ==
    <<<<"e", "t", "-", "0", "/", "0", "/", "0">>,
      <<"e", "t", "-", "0", "/", "0", "/", "1">>,
      <<"e", "t", "-", "0", "/", "1", "/", "0">>,
      <<"x", "e", "-", "0", "/", "1", "/", "1", ":", "0">>,
      <<"x", "e", "-", "0", "/", "1", "/", "1", ":", "1">>,
      <<"e", "t", "-", "0", "/", "1", "/", "2">>,
      <<"e", "t", "-", "0", "/", "1", "/", "1", "0">>,
      <<"e", "t", "-", "1", "/", "0", "/", "0">>,
      <<"v", "l", "a", "n", "1">>,
      <<"v", "l", "a", "n", "1", "0">>>>

Rotation(l, k) == [i \in 1..Len(l) |-> l[((i + k - 1) % Len(l)) + 1]]

BaseOrders ==
    {Rotation(l, k) : l \in {DocstringNames, Reversed(DocstringNames)},
                      k \in 0..(Len(DocstringNames) - 1)}

InitOrder ==
    /\ InitTables
    /\ templates = {}
    /\ components = {}
    /\ connections = {}
    /\ names \in BaseOrders
    /\ ordered = <<>>
    /\ bays = {}
    /\ procs = [p \in Procs |-> Idle]

\* an update moves rows within the table
SwapRows(i, j) ==
    /\ names \in BaseOrders
    /\ i < j
    /\ names' = [names EXCEPT ![i] = names[j], ![j] = names[i]]
    /\ UNCHANGED <<racks, device_types, devices, templates, components,
                   connections, ordered,
                   bays, procs>>

\* InterfaceManager.get_queryset(): the interfaces in their order
QueryInterfaces ==
    /\ ordered' = order_interfaces(names)
    /\ UNCHANGED <<racks, device_types, devices, templates, components,
                   connections, names,
                   bays, procs>>

NextOrder ==
    \/ \E i, j \in 1..Len(DocstringNames) : SwapRows(i, j)
    \/ QueryInterfaces

SpecOrder == InitOrder /\ [][NextOrder]_vars

(***************************************************************************)
(* Interfaces without a slot path.  The rows of the Interface table of one *)
(* device are created and deleted one by one ((device, name) is unique),   *)
(* which leaves them in any order in the table.                            *)
(***************************************************************************)
vlan1 == <<"v", "l", "a", "n", "1">>
vlan2 == <<"v", "l", "a", "n", "2">>
vlan10 == <<"v", "l", "a", "n", "1", "0">>
lo == <<"l", "o">>
mgmt == <<"m", "g", "m", "t">>

PlainNames == {vlan1, vlan2, vlan10, lo, mgmt}

\* the save of a new row
RowInsert(name) ==
    /\ name \notin Elems(names)
    /\ names' = Append(names, name)
    /\ UNCHANGED <<racks, device_types, devices, templates, components,
                   connections, ordered,
                   bays, procs>>

\* the delete of a row
RowDelete(i) ==
    /\ i \in 1..Len(names)
    /\ names' = SubSeq(names, 1, i - 1) \o SubSeq(names, i + 1, Len(names))
    /\ UNCHANGED <<racks, device_types, devices, templates, components,
                   connections, ordered,
                   bays, procs>>

NextNames ==
    \/ \E name \in PlainNames : RowInsert(name)
    \/ \E i \in 1..Cardinality(PlainNames) : RowDelete(i)
    \/ QueryInterfaces

SpecNames == Init /\ [][NextNames]_vars

(***************************************************************************)
(* ConsoleServerPortManager.get_queryset.  The extra column                *)
(* name_as_integer is substring(name FROM '[0-9]+$') cast to integer: the  *)
(* pattern has no group, so it is the text of the leftmost match, the run  *)
(* of digits the name ends with, and NULL when the name ends with no       *)
(* digit.  The rows are ordered by device and name_as_integer; here they   *)
(* are the ports of one device.                                            *)
(***************************************************************************)
\* A variant that finds no number in any name.
name_as_integerAbsent(s) == None

name_as_integer(s) ==
    LET starts == {i \in 1..Len(s) : DigitsEnd(s, i) = Len(s) + 1}
    IN  IF starts = {} THEN None
        ELSE LET i == CHOOSE x \in starts : \A y \in starts : x <= y
             IN  CastInteger(s, i, Len(s) + 1)

\* the sorted list l with the port x added after the ports that do not
\* sort after x: rows of equal name_as_integer stay in table order
InsertPort(l, x) ==
    LET k == Cardinality({i \in 1..Len(l) :
                             ~Before(name_as_integer(x), name_as_integer(l[i]))})
    IN  SubSeq(l, 1, k) \o <<x>> \o SubSeq(l, k + 1, Len(l))

RECURSIVE SortPorts(_, _)
SortPorts(rows, n) ==
    IF n = 0 THEN <<>> ELSE InsertPort(SortPorts(rows, n - 1), rows[n])

ConsoleServerPortManager_get_queryset(rows) == SortPorts(rows, Len(rows))

A2 == <<"A", "2">>
A10 == <<"A", "1", "0">>
B1 == <<"B", "1">>
B2 == <<"B", "2">>
con == <<"c", "o", "n">>

PortNames == {A2, A10, B1, B2, con}

\* ConsoleServerPort.objects.all() for the ports of the device
QueryPorts ==
    /\ ordered' = ConsoleServerPortManager_get_queryset(names)
    /\ UNCHANGED <<racks, device_types, devices, templates, components,
                   connections, names,
                   bays, procs>>

NextPorts ==
    \/ \E name \in PortNames : RowInsert(name)
    \/ \E i \in 1..Cardinality(PortNames) : RowDelete(i)
    \/ QueryPorts

SpecPorts == Init /\ [][NextPorts]_vars

(***************************************************************************)
(* Device bays.  Two racks; device type 1 is a parent type with one device *)
(* bay template, so that a new device of the type gets the device bay      *)
(* bay0; device type 3 is the child type.  A DeviceBay row is the          *)
(* component of kind "DeviceBay"; its installed_device column is the row   *)
(* of `bays' with its device and name, absent while the bay is empty.      *)
(***************************************************************************)
BayRacks == {1, 2}
BayNames == {"bay0"}
BayTypes == {1, 3}

InitBays ==
    /\ racks = [r \in BayRacks |-> [u_height |-> MaxU, desc_units |-> FALSE]]
    /\ device_types = [t \in TypeIds |->
                         [u_height |-> IF t = 3 THEN 0 ELSE 1,
                          is_full_depth |-> (t = 1),
                          subdevice_role |-> IF t = 3 THEN SUBDEVICE_ROLE_CHILD
                                             ELSE IF t = 1 THEN SUBDEVICE_ROLE_PARENT
                                             ELSE SUBDEVICE_ROLE_NONE]]
    /\ devices = <<>>
    /\ templates = {[device_type |-> 1, kind |-> "DeviceBay", name |-> name,
                     form_factor |-> None, mgmt_only |-> FALSE] : name \in BayNames}
    /\ components = {}
    /\ connections = {}
    /\ names = <<>>
    /\ ordered = <<>>
    /\ bays = {}
    /\ procs = [p \in Procs |-> Idle]

SameBay(b, device, name) == b.device = device /\ b.name = name

\* installed_device is a OneToOneField: a device is in one bay at most
UniqueInstalled(device, name, installed_device, bs) ==
    \/ installed_device = None
    \/ \A b \in bs : SameBay(b, device, name) \/ b.installed_device # installed_device

\* DeviceBay.clean followed by DeviceBay.save, for the bay `name' of the
\* device: a device is installed (or, with None, the bay is emptied)
DeviceBaySave(device, name, installed_device) ==
    /\ \E c \in components :
          c.kind = "DeviceBay" /\ c.device = device /\ c.name = name
    /\ installed_device \in DOMAIN devices \cup {None}
    /\ bays' =
          IF /\ DeviceBay_clean(device, installed_device, devices, device_types) = "ok"
             /\ UniqueInstalled(device, name, installed_device, bays)
          THEN {b \in bays : ~SameBay(b, device, name)}
                  \cup (IF installed_device = None THEN {}
                        ELSE {[device |-> device, name |-> name,
                               installed_device |-> installed_device]})
          ELSE bays
    /\ UNCHANGED <<racks, device_types, devices, templates, components,
                   connections, names, ordered, procs>>

NextBays ==
    \/ \E pk \in DevicePks, t \in BayTypes, r \in BayRacks :
          DeviceSave(pk, t, r, None, None)
    \/ \E pk \in DevicePks : DeviceDelete(pk)
    \/ \E device \in DevicePks, name \in BayNames,
          installed_device \in DevicePks \cup {None} :
          DeviceBaySave(device, name, installed_device)

SpecBays == InitBays /\ [][NextBays]_vars

(***************************************************************************)
(* Concurrent placements.  The code takes no lock and opens no             *)
(* transaction around clean() and save(): a request validates its row      *)
(* with Device.clean against the tables as they are then (Validate) and    *)
(* saves it later (Commit), when only the unique constraint of the         *)
(* database is checked again.  PlaceAtomic is the same request run with    *)
(* nothing in between, as under an external lock on the rack.              *)
(***************************************************************************)
ConcurrentPositions == 1..MaxU

\* the Device table with the row of pk saved, and the children of the
\* device moved to its rack
WithRow(pk, row, devs, bs) ==
    [d \in DOMAIN devs \cup {pk} |->
        IF d = pk THEN row
        ELSE IF d \in Children(pk, bs) THEN [devs[d] EXCEPT !.rack = row.rack]
        ELSE devs[d]]

\* the other requests that hold a validated row have validated it against
\* a table that is no longer the current one
MarkStale(p, changed, ps) ==
    [q \in Procs |->
        IF q # p /\ changed /\ ps[q].pc = "validated"
        THEN [ps[q] EXCEPT !.stale = TRUE]
        ELSE ps[q]]

\* Device.clean of the request of process p
Validate(p, t, r, position, face) ==
    LET err == Device_clean(IF p \in DOMAIN devices THEN p ELSE None,
                            t, r, position, face, devices, device_types, racks)
        row == [device_type |-> t, rack |-> r, position |-> position, face |-> face]
    IN  /\ procs[p].pc = "idle"
        /\ procs' = IF err = "ok"
                    THEN [procs EXCEPT ![p] = [pc |-> "validated", request |-> row,
                                               stale |-> FALSE]]
                    ELSE procs
        /\ UNCHANGED <<racks, device_types, devices, templates, components,
                       connections, names, ordered, bays>>

\* Device.save of the row the process has validated
Commit(p) ==
    LET row == procs[p].request
        is_new == IsNew(p, devices)
        saved == UniqueTogether(p, row.rack, row.position, row.face, devices)
    IN  /\ procs[p].pc = "validated"
        /\ devices' = IF saved THEN WithRow(p, row, devices, bays) ELSE devices
        /\ components' = IF saved /\ is_new
                         THEN components \cup NewComponents(p, row.device_type, templates)
                         ELSE components
        /\ procs' = [MarkStale(p, saved, procs) EXCEPT ![p] = Idle]
        /\ UNCHANGED <<racks, device_types, templates, connections, names,
                       ordered, bays>>

\* Device.clean and Device.save of the request of process p in one step
PlaceAtomic(p, t, r, position, face) ==
    LET err == Device_clean(IF p \in DOMAIN devices THEN p ELSE None,
                            t, r, position, face, devices, device_types, racks)
        row == [device_type |-> t, rack |-> r, position |-> position, face |-> face]
        is_new == IsNew(p, devices)
        saved == err = "ok" /\ UniqueTogether(p, r, position, face, devices)
    IN  /\ procs[p].pc = "idle"
        /\ devices' = IF saved THEN WithRow(p, row, devices, bays) ELSE devices
        /\ components' = IF saved /\ is_new
                         THEN components \cup NewComponents(p, t, templates)
                         ELSE components
        /\ procs' = MarkStale(p, saved, procs)
        /\ UNCHANGED <<racks, device_types, templates, connections, names,
                       ordered, bays>>

NextConcurrent ==
    \/ \E p \in Procs, t \in PlainTypes, r \in Racks,
          position \in ConcurrentPositions, face \in Faces :
          Validate(p, t, r, position, face)
    \/ \E p \in Procs : Commit(p)
    \/ \E p \in Procs, t \in PlainTypes, r \in Racks,
          position \in ConcurrentPositions, face \in Faces :
          PlaceAtomic(p, t, r, position, face)

\* the tables of Init with the full-depth type 1 two units high, so that
\* devices of different heights and depths are placed
InitConcurrent ==
    /\ racks = [r \in Racks |-> [u_height |-> MaxU, desc_units |-> FALSE]]
    /\ device_types = [t \in TypeIds |->
                         [u_height |-> IF t = 3 THEN 0 ELSE IF t = 1 THEN 2 ELSE 1,
                          is_full_depth |-> (t = 1),
                          subdevice_role |-> IF t = 3 THEN SUBDEVICE_ROLE_CHILD
                                             ELSE SUBDEVICE_ROLE_NONE]]
    /\ devices = <<>>
    /\ templates = {}
    /\ components = {}
    /\ connections = {}
    /\ names = <<>>
    /\ ordered = <<>>
    /\ bays = {}
    /\ procs = [p \in Procs |-> Idle]

SpecConcurrent == InitConcurrent /\ [][NextConcurrent]_vars

(***************************************************************************)
(* What a rack state means, stated without the code: the cells a device    *)
(* occupies, and the state of a rack without overlap and out-of-bounds.    *)
(***************************************************************************)
Positioned(d, devs) == devs[d].position >= 1

Height(d, devs, types) == types[devs[d].device_type].u_height

Span(d, devs, types) ==
    devs[d].position .. (devs[d].position + Height(d, devs, types) - 1)

FullDepth(d, devs, types) == types[devs[d].device_type].is_full_depth

\* the (unit, face) cells of a positioned device; a full-depth device has
\* the cells of both faces
Cells(d, devs, types) ==
    IF ~Positioned(d, devs) THEN {}
    ELSE {<<u, f>> : u \in Span(d, devs, types),
                     f \in IF FullDepth(d, devs, types) THEN Faces ELSE {devs[d].face}}

NoOverlap(devs, types) ==
    \A d1, d2 \in DOMAIN devs :
        (d1 # d2 /\ devs[d1].rack = devs[d2].rack)
            => Cells(d1, devs, types) \cap Cells(d2, devs, types) = {}

InBounds(devs, types, rks) ==
    \A d \in DOMAIN devs :
        Positioned(d, devs)
            => \A u \in Span(d, devs, types) : u \in 1..rks[devs[d].rack].u_height

ValidRack(devs, types, rks) == NoOverlap(devs, types) /\ InBounds(devs, types, rks)

(***************************************************************************)
(* Device placement                                                        *)
(***************************************************************************)
\* a step that creates, edits or deletes a row of the Device table
DeviceStep == devices' # devices

\* C1: from a rack state without overlap and with every device within the
\* rack, a device create/move that Device.clean accepts and that is saved
\* in the same step leaves no two devices on the same (unit, face) cell (a
\* full-depth device has the cells of both faces) and every positioned
\* device's span within [1, rack.u_height].
C1_PlacementKeepsRackValid ==
    [][(DeviceStep /\ ValidRack(devices, device_types, racks))
          => ValidRack(devices', device_types', racks')]_vars

\* C1 witness: a full-depth device and a half-depth device mounted from
\* opposite faces on adjacent units of a valid rack.
C1_Witness ==
    /\ ValidRack(devices, device_types, racks)
    /\ \E d1, d2 \in DOMAIN devices :
          /\ d1 # d2
          /\ Positioned(d1, devices) /\ Positioned(d2, devices)
          /\ FullDepth(d1, devices, device_types)
          /\ ~FullDepth(d2, devices, device_types)
          /\ devices[d1].face # devices[d2].face
          /\ Height(d1, devices, device_types) = 2
          /\ devices[d2].position = devices[d1].position + 2

(***************************************************************************)
(* Rack resize                                                             *)
(***************************************************************************)
\* the highest unit a device occupies
TopUnit(d, devs, types) == devs[d].position + Height(d, devs, types) - 1

\* the devices that occupy at least one unit of rack r
Installed(r, devs, types) ==
    {d \in DOMAIN devs :
        devs[d].rack = r /\ Positioned(d, devs) /\ Height(d, devs, types) >= 1}

TopChoices(r, devs) ==
    IF TopDevices(r, devs) = {} THEN {None} ELSE TopDevices(r, devs)

\* C2: Rack.clean rejects the resize of an existing rack to the height H
\* whenever the highest occupied unit (position + u_height - 1) of a device
\* installed in it exceeds H, whatever the devices, faces and heights.
C2_ResizeBelowDeviceRejected ==
    \A r \in Racks, H \in 1..MaxU :
        (\E d \in Installed(r, devices, device_types) :
            TopUnit(d, devices, device_types) > H)
        => \A top_device \in TopChoices(r, devices) :
              Rack_clean(r, H, top_device, devices, device_types) = "u_height"

(***************************************************************************)
(* Device type resize                                                      *)
(***************************************************************************)
\* a step that saves a larger height for device type t
TypeGrows(t) == device_types'[t].u_height > device_types[t].u_height

\* C3: when the height of an existing device type is increased and
\* DeviceType.clean accepts the change (in a rack state without overlap),
\* no positioned instance of the type overlaps another device of its rack
\* at the new height, other instances of the type and types of previous
\* height 0 included.
C3_GrownTypeDoesNotOverlap ==
    [][\A t \in TypeIds :
          (TypeGrows(t) /\ ValidRack(devices, device_types, racks))
          => \A d \in DOMAIN devices', o \in DOMAIN devices' :
                (/\ devices'[d].device_type = t
                 /\ o # d
                 /\ devices'[o].rack = devices'[d].rack)
                => Cells(d, devices', device_types')
                      \cap Cells(o, devices', device_types') = {}]_vars

\* C4: DeviceType.clean rejects a larger height, with the error on the
\* field u_height, whenever the new span of a positioned instance would end
\* above the top of its rack (position + new height - 1 > rack.u_height).
C4_GrowthPastRackTopRejected ==
    \A t \in TypeIds, u_height \in 0..MaxTypeHeight, is_full_depth \in BOOLEAN :
        (/\ u_height > device_types[t].u_height
         /\ \E d \in DOMAIN devices :
               /\ devices[d].device_type = t
               /\ Positioned(d, devices)
               /\ devices[d].position + u_height - 1 > racks[devices[d].rack].u_height)
        => DeviceType_clean(t, u_height, is_full_depth,
                            devices, device_types, racks) = "u_height"

\* C4 witness: a 1U instance in the top unit of its rack, and the resize of
\* its type to 2U is rejected on u_height.
C4_Witness ==
    \E d \in DOMAIN devices :
        /\ devices[d].position = racks[devices[d].rack].u_height
        /\ device_types[devices[d].device_type].u_height = 1
        /\ DOMAIN devices = {d}
        /\ DeviceType_clean(devices[d].device_type, 2,
                            device_types[devices[d].device_type].is_full_depth,
                            devices, device_types, racks) = "u_height"

(***************************************************************************)
(* Device.clean, input by input                                            *)
(***************************************************************************)
\* a position that names a rack unit (0 and None name none)
PositionSet(position) == position >= 1

\* the primary key Device.clean sees for the row pk of the form
CleanPk(pk) == IF pk \in DOMAIN devices THEN pk ELSE None

\* C5: Device.clean rejects a position without a face (error on face), a
\* child device type with a face (error on face) or with a position (error
\* on position); otherwise it accepts a position exactly when it is in
\* get_available_units(type height, face or None for a full-depth type,
\* exclude the device itself), and it accepts a device without a position
\* unless it is a child type with a face.
C5_DeviceCleanOutcome ==
    \A pk \in DevicePks, t \in TypeIds, r \in Racks,
       position \in Positions, face \in FaceInputs :
        LET err == Device_clean(CleanPk(pk), t, r, position, face,
                                devices, device_types, racks)
            child == device_types[t].subdevice_role = SUBDEVICE_ROLE_CHILD
            selector == IF device_types[t].is_full_depth THEN None ELSE face
            own == IF pk \in DOMAIN devices THEN {pk} ELSE {}
            available == get_available_units(r, device_types[t].u_height, selector,
                                             own, devices, device_types, racks)
        IN  /\ (PositionSet(position) /\ face = None) => err = "face"
            /\ (child /\ face # None) => err = "face"
            /\ (child /\ PositionSet(position)) => err = "position"
            /\ (~child /\ PositionSet(position) /\ face # None)
                  => (err = "ok" <=> position \in Elems(available))
            /\ (~PositionSet(position) /\ ~(child /\ face # None)) => err = "ok"

(***************************************************************************)
(* Rack.get_available_units, input by input                                *)
(***************************************************************************)
QueryHeights == 0..(MaxTypeHeight + 1)
Excludes == SUBSET DevicePks

\* unit u of rack r is taken, for the face selector, by a device that is not
\* excluded: any device for the selector None, else a device of that face
\* or a full-depth device
Occupied(r, u, rack_face, exclude) ==
    \E d \in DOMAIN devices \ exclude :
        /\ devices[d].rack = r
        /\ Positioned(d, devices)
        /\ u \in Span(d, devices, device_types)
        /\ \/ rack_face = None
           \/ devices[d].face = rack_face
           \/ FullDepth(d, devices, device_types)

\* the start units with h free units from them upwards inside the rack
FreeStarts(r, h, rack_face, exclude) ==
    {u \in 1..racks[r].u_height :
        \A k \in u..(u + h - 1) :
            k \in 1..racks[r].u_height /\ ~Occupied(r, k, rack_face, exclude)}

GAU(r, h, rack_face, exclude) ==
    get_available_units(r, h, rack_face, exclude, devices, device_types, racks)

\* C6: in a rack without overlap and with every device within the rack,
\* for every face selector, exclude list and height h >= 1,
\* get_available_units returns exactly the start units u with u..u+h-1
\* inside [1, u_height] and free on the queried face; in a rack of height 1
\* that holds one 1U device the result is empty for h = 1 and for h = 2.
C6_AvailableUnitsExact ==
    ValidRack(devices, device_types, racks)
    => \A r \in Racks, h \in QueryHeights \ {0}, rack_face \in FaceInputs,
          exclude \in Excludes :
          /\ Elems(GAU(r, h, rack_face, exclude)) = FreeStarts(r, h, rack_face, exclude)
          /\ (/\ racks[r].u_height = 1
              /\ exclude = {}
              /\ \E d \in DOMAIN devices :
                    /\ devices[d].rack = r /\ devices[d].position = 1
                    /\ Height(d, devices, device_types) = 1
                    /\ (rack_face = None \/ devices[d].face = rack_face))
             => (h \in {1, 2} => GAU(r, h, rack_face, exclude) = <<>>)

\* C6 witness: a valid rack of height 3 with a 1U device in unit 2 of the
\* front face: no start unit for 2U on the front, units 2 and 1 on the rear.
C6_Witness ==
    /\ ValidRack(devices, device_types, racks)
    /\ \E r \in Racks, d \in DOMAIN devices :
          /\ racks[r].u_height = 3
          /\ DOMAIN devices = {d}
          /\ devices[d].rack = r /\ devices[d].position = 2
          /\ devices[d].face = RACK_FACE_FRONT
          /\ Height(d, devices, device_types) = 1
          /\ ~FullDepth(d, devices, device_types)
          /\ GAU(r, 2, RACK_FACE_FRONT, {}) = <<>>
          /\ GAU(r, 2, RACK_FACE_REAR, {}) = <<2, 1>>

Opposite(face) == IF face = RACK_FACE_FRONT THEN RACK_FACE_REAR ELSE RACK_FACE_FRONT

\* C7: the units free for the selector None are those free on the front
\* and on the rear; for a given face a full-depth device takes its units
\* whatever face it is mounted on, and a unit that only half-depth devices
\* of the opposite face cover stays available.
C7_NoneFaceIsEitherFace ==
    \A r \in Racks, exclude \in Excludes :
        /\ Elems(GAU(r, 1, None, exclude))
              = Elems(GAU(r, 1, RACK_FACE_FRONT, exclude))
                   \cap Elems(GAU(r, 1, RACK_FACE_REAR, exclude))
        /\ \A face \in Faces, u \in 1..racks[r].u_height :
              LET covering == {d \in DOMAIN devices \ exclude :
                                  /\ devices[d].rack = r
                                  /\ Positioned(d, devices)
                                  /\ u \in Span(d, devices, device_types)}
              IN  /\ (\E d \in covering : FullDepth(d, devices, device_types))
                        => u \notin Elems(GAU(r, 1, face, exclude))
                  /\ (\A d \in covering :
                         /\ ~FullDepth(d, devices, device_types)
                         /\ devices[d].face = Opposite(face))
                        => u \in Elems(GAU(r, 1, face, exclude))

\* C7 witness: a half-depth device on the front of unit 1 and a full-depth
\* device in unit 2: unit 1 is free on the rear only, unit 2 on no face.
C7_Witness ==
    \E r \in Racks, d1, d2 \in DOMAIN devices :
        /\ devices[d1].rack = r /\ devices[d2].rack = r
        /\ devices[d1].position = 1 /\ devices[d1].face = RACK_FACE_FRONT
        /\ ~FullDepth(d1, devices, device_types)
        /\ Height(d1, devices, device_types) = 1
        /\ devices[d2].position = 2 /\ FullDepth(d2, devices, device_types)
        /\ Height(d2, devices, device_types) = 1
        /\ racks[r].u_height = 3
        /\ GAU(r, 1, None, {}) = <<3>>
        /\ GAU(r, 1, RACK_FACE_REAR, {}) = <<3, 1>>
        /\ GAU(r, 1, RACK_FACE_FRONT, {}) = <<3>>

\* C8: get_available_units returns its start units in strictly descending
\* order, so without duplicates, for every rack state, height and face.
C8_AvailableUnitsDescending ==
    \A r \in Racks, h \in QueryHeights, rack_face \in FaceInputs, exclude \in Excludes :
        LET l == GAU(r, h, rack_face, exclude)
        IN  \A i \in 1..(Len(l) - 1) : l[i] > l[i + 1]

\* C8 witness: a device in unit 2 of a rack of height 3, and the 1U start
\* units are returned as 3, 1.
C8_Witness ==
    \E r \in Racks, d \in DOMAIN devices :
        /\ devices[d].rack = r /\ devices[d].position = 2
        /\ Height(d, devices, device_types) = 1
        /\ GAU(r, 1, None, {}) = <<3, 1>>

\* C9: when a new device is placed at a unit of get_available_units(h, face)
\* (h the height of its type, face the selector of Device.clean), then
\* get_available_units(h, face, exclude=[the device]) of the new state is
\* the list returned before the placement.
C9_PlaceThenExcludeRoundTrip ==
    [][\A pk \in DevicePks :
          (/\ pk \notin DOMAIN devices
           /\ pk \in DOMAIN devices'
           /\ PositionSet(devices'[pk].position))
          => LET t == devices'[pk].device_type
                 r == devices'[pk].rack
                 h == device_types[t].u_height
                 rack_face == IF device_types[t].is_full_depth THEN None
                              ELSE devices'[pk].face
                 before == get_available_units(r, h, rack_face, {},
                                               devices, device_types, racks)
                 after == get_available_units(r, h, rack_face, {pk},
                                              devices', device_types', racks')
             IN  /\ devices'[pk].position \in Elems(before)
                 /\ after = before]_vars

\* C9 witness: a positioned device whose exclusion changes the result of
\* get_available_units for its own height and face selector.
C9_Witness ==
    \E pk \in DOMAIN devices :
        LET t == devices[pk].device_type
            rack_face == IF device_types[t].is_full_depth THEN None ELSE devices[pk].face
        IN  /\ PositionSet(devices[pk].position)
            /\ device_types[t].u_height = 2
            /\ DOMAIN devices = DevicePks
            /\ GAU(devices[pk].rack, 2, rack_face, {pk})
                  # GAU(devices[pk].rack, 2, rack_face, {})
            /\ devices[pk].position \in Elems(GAU(devices[pk].rack, 2, rack_face, {pk}))

(***************************************************************************)
(* Rack.get_rack_units                                                     *)
(***************************************************************************)
\* C10: for every rack and each face, get_rack_units(face) with
\* remove_redundant=False returns exactly u_height records, one per unit,
\* from the top unit to the bottom unit: u_height down to 1 when
\* desc_units is false, 1 up to u_height when it is true.
C10_FullElevationHasEveryUnit ==
    \A r \in Racks, face \in Faces, order \in Orders :
        LET res == get_rack_units(r, face, None, FALSE, order,
                                  devices, device_types, racks)
            H == racks[r].u_height
        IN  /\ ~res.raised
            /\ Len(res.elevation) = H
            /\ \A i \in 1..H :
                  res.elevation[i].id = IF racks[r].desc_units THEN i
                                        ELSE H + 1 - i

\* the devices get_rack_units shows on a face of a rack
Visible(r, face) == ElevationDevices(r, face, None, devices, device_types)

\* the records of an elevation that show the device d
RecordsOf(el, d) == {i \in 1..Len(el) : el[i].device = d}

RECURSIVE SumOver(_, _)
SumOver(S, f) ==
    IF S = {} THEN 0
    ELSE LET x == CHOOSE y \in S : TRUE
         IN  f[x] + SumOver(S \ {x}, f)

\* C11: in a rack state without overlap and with every device within the
\* rack, get_rack_units(face, remove_redundant=True) does not raise; each
\* device visible on the face is in exactly one record, the one of its
\* position; the other units of its span are not in the sequence; every
\* unit no visible device occupies is in the sequence with no device; and
\* the sequence has u_height minus the sum of (height - 1) over the
\* visible devices records.
C11_CollapsedElevation ==
    ValidRack(devices, device_types, racks) =>
    \A r \in Racks, face \in Faces, order \in Orders :
        LET res == get_rack_units(r, face, None, TRUE, order,
                                  devices, device_types, racks)
            el == res.elevation
            vis == Visible(r, face)
            H == racks[r].u_height
            ids == {el[i].id : i \in 1..Len(el)}
            occupied == UNION {Span(d, devices, device_types) : d \in vis}
        IN  /\ ~res.raised
            /\ \A d \in vis :
                  /\ Cardinality(RecordsOf(el, d)) = 1
                  /\ \A i \in RecordsOf(el, d) : el[i].id = devices[d].position
                  /\ \A u \in Span(d, devices, device_types) \ {devices[d].position} :
                        u \notin ids
            /\ \A u \in (1..H) \ occupied :
                  \E i \in 1..Len(el) : el[i].id = u /\ el[i].device = NoDevice
            /\ Len(el) = H - SumOver(vis, [d \in vis |->
                                             Height(d, devices, device_types) - 1])

\* the visible devices whose span holds the unit u
Sharing(r, face, u) ==
    {d \in Visible(r, face) : u \in Span(d, devices, device_types)}

\* the index of the device d in an iteration order
IndexIn(order, d) == CHOOSE i \in 1..Len(order) : order[i] = d

\* the device of S that the order iterates last
IteratedLast(order, S) ==
    CHOOSE d \in S : \A o \in S : IndexIn(order, o) <= IndexIn(order, d)

\* C12: when two devices shown on the queried face overlap (every device
\* being within the rack), get_rack_units does not raise, with
\* remove_redundant true or false and for every iteration order of the
\* devices, and the record of each shared unit shows the device iterated
\* last.
C12_OverlapRendersLastWriter ==
    InBounds(devices, device_types, racks) =>
    \A r \in Racks, face \in Faces, order \in Orders, remove_redundant \in BOOLEAN :
        LET res == get_rack_units(r, face, None, remove_redundant, order,
                                  devices, device_types, racks)
            el == res.elevation
            shared == {u \in 1..racks[r].u_height :
                          Cardinality(Sharing(r, face, u)) >= 2}
        IN  shared # {} =>
               /\ ~res.raised
               /\ \A u \in shared :
                     \E i \in 1..Len(el) :
                        /\ el[i].id = u
                        /\ el[i].device = IteratedLast(order, Sharing(r, face, u))

(***************************************************************************)
(* Rack.get_utilization                                                    *)
(***************************************************************************)
\* the units of rack r no device takes for the face selector
FreeUnits(r, rack_face) ==
    {u \in 1..racks[r].u_height : ~Occupied(r, u, rack_face, {})}

\* a half-depth device mounted on the rear face of rack r
RearOnly(d, r) ==
    /\ devices[d].rack = r
    /\ Positioned(d, devices)
    /\ devices[d].face = RACK_FACE_REAR
    /\ ~FullDepth(d, devices, device_types)
    /\ Height(d, devices, device_types) >= 1

\* C13 as stated: get_utilization returns
\* floor((u_height - F) / u_height * 100) with F the number of units free
\* on the front face.
C13_UtilizationOfFrontFace ==
    \A r \in Racks :
        get_utilization(r, devices, device_types, racks)
            = ((racks[r].u_height - Cardinality(FreeUnits(r, RACK_FACE_FRONT))) * 100)
                  \div racks[r].u_height

\* C13 amended: get_utilization returns
\* floor((u_height - F) / u_height * 100) with F the number of units that
\* no device occupies on either face; a rack that holds nothing but
\* half-depth devices on the rear face has a utilization above 0 whenever
\* one of them is within the rack.
C13_UtilizationOfEitherFace ==
    \A r \in Racks :
        LET H == racks[r].u_height
            util == get_utilization(r, devices, device_types, racks)
        IN  /\ util = ((H - Cardinality(FreeUnits(r, None))) * 100) \div H
            /\ ( /\ \E d \in DOMAIN devices :
                       RearOnly(d, r) /\ devices[d].position <= H
                 /\ \A d \in DOMAIN devices : RearOnly(d, r) )
               => util > 0

\* a rack whose only device is a half-depth device on the rear face, in
\* which the front face is free and the utilization is not 0
C13_Witness ==
    \E r \in Racks :
        /\ Cardinality(DOMAIN devices) = 1
        /\ \A d \in DOMAIN devices : RearOnly(d, r)
        /\ FreeUnits(r, RACK_FACE_FRONT) = 1..racks[r].u_height
        /\ get_utilization(r, devices, device_types, racks) \in 1..99

(***************************************************************************)
(* Devices of position 0 or without a position                             *)
(***************************************************************************)
\* the Device table without the row d
Without(d) == [o \in DOMAIN devices \ {d} |-> devices[o]]

Unracked(d) == devices[d].position = 0 \/ devices[d].position = None

\* C14: a device of position 0 or None, whatever its face and the height
\* of its type, is in no record of get_rack_units (any face, either mode,
\* any iteration order) and removes no unit from get_available_units (any
\* height, face selector and exclude list: the result is the one of the
\* tables without the device); get_0u_devices returns the devices of
\* position 0 and no positioned device.
C14_UnrackedDevicesTakeNoUnit ==
    /\ \A d \in DOMAIN devices :
          Unracked(d) =>
             /\ \A r \in Racks, face \in Faces, order \in Orders,
                   remove_redundant \in BOOLEAN :
                   RecordsOf(get_rack_units(r, face, None, remove_redundant, order,
                                            devices, device_types, racks).elevation,
                             d) = {}
             /\ \A r \in Racks, h \in QueryHeights, rack_face \in FaceInputs,
                   exclude \in Excludes :
                   get_available_units(r, h, rack_face, exclude,
                                       devices, device_types, racks)
                      = get_available_units(r, h, rack_face, exclude,
                                            Without(d), device_types, racks)
    /\ \A r \in Racks :
          get_0u_devices(r, devices)
             = {d \in DOMAIN devices : devices[d].rack = r /\ devices[d].position = 0}

\* a device of position 0 with a face and a type of 2U or more, next to a
\* positioned device, in a rack with a unit left
C14_Witness ==
    \E d, o \in DOMAIN devices :
        /\ devices[d].position = 0
        /\ devices[d].face # None
        /\ Height(d, devices, device_types) >= 2
        /\ Positioned(o, devices)
        /\ get_0u_devices(devices[d].rack, devices) = {d}
        /\ GAU(devices[d].rack, 1, None, {}) # <<>>

(***************************************************************************)
(* Instantiation of components (specification SpecComponents)              *)
(***************************************************************************)
\* the component of a device that stands for a template
InstancesOf(template, pk, comps) ==
    {c \in ComponentsOf(pk, comps) :
        c.kind = template.kind /\ c.name = template.name}

\* C19: the step that saves a new device gives it exactly one component
\* per template of its device type, of the template's kind and name, and
\* for an interface of the template's form factor and management-only
\* flag, and no other component; every step that leaves the device in the
\* table (a later save of the device or of another one, the addition, edit
\* or removal of a template) leaves the device's components as they are.
C19_ComponentsInstantiatedOnce ==
    [][\A pk \in DevicePks :
          /\ (pk \notin DOMAIN devices /\ pk \in DOMAIN devices') =>
                LET t == devices'[pk].device_type
                    mine == ComponentsOf(pk, components')
                IN  /\ \A x \in templates :
                          x.device_type = t =>
                             /\ Cardinality(InstancesOf(x, pk, components')) = 1
                             /\ x.kind = "Interface" =>
                                   \A c \in InstancesOf(x, pk, components') :
                                      /\ c.form_factor = x.form_factor
                                      /\ c.mgmt_only = x.mgmt_only
                    /\ \A c \in mine :
                          \E x \in templates :
                             x.device_type = t /\ x.kind = c.kind /\ x.name = c.name
          /\ (pk \in DOMAIN devices /\ pk \in DOMAIN devices') =>
                ComponentsOf(pk, components') = ComponentsOf(pk, components)
      ]_vars

\* a device that was created with an interface and a console port and
\* whose type's templates have changed since
C19_Witness ==
    \E pk \in DOMAIN devices :
        /\ \E c \in ComponentsOf(pk, components) : c.kind = "Interface"
        /\ \E c \in ComponentsOf(pk, components) : c.kind = "ConsolePort"
        /\ ComponentsOf(pk, components)
              # NewComponents(pk, devices[pk].device_type, templates)

(***************************************************************************)
(* Interface connections (specification SpecConnections)                   *)
(***************************************************************************)
\* the connections an interface is an end of, in either column
ConnectionsOf(i) ==
    {c \in connections : c.interface_a = i \/ c.interface_b = i}

\* C15: no interface of the virtual form factor is an end of an interface
\* connection.
C15_NoVirtualEndpoint ==
    \A c \in connections :
        /\ InterfaceRow(c.interface_a, components).form_factor # IFACE_FF_VIRTUAL
        /\ InterfaceRow(c.interface_b, components).form_factor # IFACE_FF_VIRTUAL

\* C16: every interface is an end of at most one connection, the
\* interface_a and interface_b columns counted together: it is never the A
\* end of one connection and the B end of another, and the pair (A, B)
\* never coexists with (B, A).
C16_AtMostOneConnection ==
    \A i \in Interfaces(components) : Cardinality(ConnectionsOf(i)) <= 1

\* C17: InterfaceConnection.clean rejects the connection of every interface
\* to itself with an error on the field interface_b, and no connection of
\* an interface to itself is ever stored.
C17_SelfConnectionRejected ==
    /\ \A i \in Interfaces(components) :
          InterfaceConnection_clean(i, i) = "interface_b"
    /\ \A c \in connections : c.interface_a # c.interface_b

\* a connection exists next to an interface that is an end of none, so
\* that the unique constraints would let its connection to itself through
C17_Witness ==
    /\ connections # {}
    /\ \E i \in Interfaces(components) : ConnectionsOf(i) = {}

(***************************************************************************)
(* The errors of the validators                                            *)
(***************************************************************************)
\* C18: whatever the input, each validator either accepts or raises a
\* validation error under the name of a field of its model: Device.clean
\* (device placement) under face or position, Rack.clean (rack resize) and
\* DeviceType.clean (device type resize) under u_height,
\* InterfaceConnection.clean under interface_a or interface_b, and
\* DeviceBay.clean (installation into a device that is no parent, or into
\* the device itself) under device or installed_device.
C18_RejectionsNameAField ==
    /\ \A pk \in DevicePks, t \in TypeIds, r \in Racks,
          position \in Positions, face \in FaceInputs :
          Device_clean(CleanPk(pk), t, r, position, face,
                       devices, device_types, racks) \in {"ok", "face", "position"}
    /\ \A r \in Racks, u_height \in 1..MaxU :
          \A top_device \in TopChoices(r, devices) :
          Rack_clean(r, u_height, top_device, devices, device_types)
             \in {"ok", "u_height"}
    /\ \A t \in EditableTypes, u_height \in 0..MaxTypeHeight, is_full_depth \in BOOLEAN :
          DeviceType_clean(t, u_height, is_full_depth, devices, device_types, racks)
             \in {"ok", "u_height", "is_full_depth"}
    /\ \A interface_a, interface_b \in DevicePks \X InterfaceNames :
          InterfaceConnection_clean(interface_a, interface_b)
             \in {"ok", "interface_a", "interface_b"}
    /\ \A device \in DOMAIN devices, installed_device \in DOMAIN devices \cup {None} :
          DeviceBay_clean(device, installed_device, devices, device_types)
             \in {"ok", "device", "installed_device"}

(***************************************************************************)
(* Ordering of interface names (specification SpecOrder)                   *)
(***************************************************************************)
\* C20: whatever the order of the rows in the table, the interfaces
\* et-0/0/0, et-0/0/1, et-0/1/0, xe-0/1/1:0, xe-0/1/1:1, et-0/1/2,
\* et-0/1/10, et-1/0/0, vlan1, vlan10 are returned in exactly this order,
\* and the key (_id1, _id2, _id3, _id4) with NULL after every integer
\* strictly ascends along it.
C20_DocstringOrder ==
    /\ ordered # <<>> => ordered = DocstringNames
    /\ order_interfaces(names) = DocstringNames
    /\ \A i \in 1..(Len(DocstringNames) - 1) :
          KeyLess(OrderKey(DocstringNames[i]), OrderKey(DocstringNames[i + 1]))

\* the query has returned the names of a table whose rows are in another
\* order: a rotation of the reversed list with two rows exchanged
C20_Witness ==
    /\ ordered = DocstringNames
    /\ names \notin BaseOrders
    /\ names # ordered

(***************************************************************************)
(* Names without a slot path (specification SpecNames)                     *)
(***************************************************************************)
VlanNames == {vlan1, vlan2, vlan10}

\* C21 as stated: a name without a slash has None in all four fields of
\* the key, and the table of vlan10, vlan1, vlan2 is returned in the
\* lexical order vlan1, vlan10, vlan2.
C21_VlanLexicalOrder ==
    /\ \A i \in 1..Len(names) :
          OrderKey(names[i]) = <<None, None, None, None>>
    /\ Elems(names) = VlanNames =>
          order_interfaces(names) = <<vlan1, vlan10, vlan2>>

\* the number a name ends with
TrailingNumber(name) ==
    IF name = vlan1 THEN 1
    ELSE IF name = vlan2 THEN 2
    ELSE IF name = vlan10 THEN 10
    ELSE None

\* C21 amended: a name without a slash has None in _id1, _id2 and _id4,
\* and in _id3 the number it ends with (None when it ends with no digit);
\* so the rows are returned by ascending number, the names without a
\* number after them in the order of the table: the table of vlan10,
\* vlan1, vlan2, in any order, is returned as vlan1, vlan2, vlan10.
C21_VlanNumericOrder ==
    LET res == order_interfaces(names)
        numbered == SelectSeq(res, LAMBDA n : TrailingNumber(n) # None)
    IN  /\ \A i \in 1..Len(names) :
              OrderKey(names[i]) = <<None, None, TrailingNumber(names[i]), None>>
        /\ Elems(names) = VlanNames => res = <<vlan1, vlan2, vlan10>>
        /\ (ordered # <<>> /\ Elems(ordered) = VlanNames) =>
              ordered = <<vlan1, vlan2, vlan10>>
        /\ \A i, j \in 1..Len(numbered) :
              i < j => TrailingNumber(numbered[i]) < TrailingNumber(numbered[j])
        /\ res = numbered
                   \o SelectSeq(names, LAMBDA n : TrailingNumber(n) = None)

\* the table holds vlan10, vlan1, vlan2 in this order and the query has
\* returned them
C21_Witness ==
    /\ names = <<vlan10, vlan1, vlan2>>
    /\ ordered = <<vlan1, vlan2, vlan10>>

(***************************************************************************)
(* Ordering of console server ports (specification SpecPorts)              *)
(***************************************************************************)
\* the text before the number of a port name, as its rank in lexical
\* order, and the number
PrefixRank(name) ==
    IF name \in {A2, A10} THEN 1
    ELSE IF name \in {B1, B2} THEN 2
    ELSE 3

PortNumber(name) ==
    IF name = B1 THEN 1
    ELSE IF name \in {A2, B2} THEN 2
    ELSE IF name = A10 THEN 10
    ELSE None

PositionIn(l, x) == CHOOSE i \in 1..Len(l) : l[i] = x

\* C22 as stated: the ports are returned ordered by (hasDigits, prefix,
\* integer): the names that end with a number first, grouped by prefix and
\* within a prefix by number (A2 before B1), the names without a number
\* last.
C22_PortsByPrefixThenNumber ==
    LET res == ConsoleServerPortManager_get_queryset(names)
    IN  \A i, j \in 1..Len(res) :
           i < j =>
              \/ PortNumber(res[j]) = None
              \/ /\ PortNumber(res[i]) # None
                 /\ \/ PrefixRank(res[i]) < PrefixRank(res[j])
                    \/ /\ PrefixRank(res[i]) = PrefixRank(res[j])
                       /\ PortNumber(res[i]) <= PortNumber(res[j])

\* C22 amended: the ports are returned ordered by the number they end with
\* alone, whatever the prefix (B1 before A2, A10 after B2), the names
\* without a number last; ports of the same number, and ports without a
\* number, come in the order of the table.
C22_PortsByNumberOnly ==
    LET res == ConsoleServerPortManager_get_queryset(names)
    IN  /\ Len(res) = Len(names) /\ Elems(res) = Elems(names)
        /\ \A i \in 1..Len(names) : name_as_integer(names[i]) = PortNumber(names[i])
        /\ \A i, j \in 1..Len(res) :
              i < j =>
                 \/ PortNumber(res[j]) = None /\ PortNumber(res[i]) # None
                 \/ /\ PortNumber(res[i]) # None /\ PortNumber(res[j]) # None
                    /\ PortNumber(res[i]) < PortNumber(res[j])
                 \/ /\ PortNumber(res[i]) = PortNumber(res[j])
                    /\ PositionIn(names, res[i]) < PositionIn(names, res[j])
        /\ (ordered # <<>> /\ Elems(ordered) = {A2, B1}) => ordered = <<B1, A2>>

\* the table holds A2, B1 and con and the query has returned B1 first
C22_Witness ==
    /\ names = <<con, A2, B1>>
    /\ ordered = <<B1, A2, con>>

(***************************************************************************)
(* Device type edits that do not grow the type                             *)
(***************************************************************************)
\* a step that edits a device type without increasing its height
TypeEditedWithoutGrowth ==
    /\ device_types' # device_types
    /\ \A t \in TypeIds : device_types'[t].u_height <= device_types[t].u_height

\* C24: a device type edit that DeviceType.clean accepts and that does not
\* increase the height of the type, in particular one that changes
\* is_full_depth from false to true, leaves a rack without overlap without
\* overlap: no positioned instance of the type has a unit in common with a
\* device on the opposite face of its rack.
C24_EditWithoutGrowthKeepsNoOverlap ==
    [][(TypeEditedWithoutGrowth /\ NoOverlap(devices, device_types))
          => NoOverlap(devices, device_types')]_vars

(***************************************************************************)
(* Child devices (specification SpecBays)                                  *)
(***************************************************************************)
\* C25: every device installed in a device bay is assigned to the rack of
\* the device that owns the bay.
C25_ChildInRackOfParent ==
    \A b \in bays : devices[b.installed_device].rack = devices[b.device].rack

(***************************************************************************)
(* Concurrent placements (specification SpecConcurrent)                    *)
(***************************************************************************)
\* the step saves a row in one piece with its validation
AtomicStep ==
    /\ devices' # devices
    /\ \A p \in Procs : procs'[p].pc = procs[p].pc

\* the step saves the row of a process that has validated it against a
\* Device table that another request has changed since
StaleCommit ==
    \E p \in Procs :
        /\ procs[p].pc = "validated"
        /\ procs[p].stale
        /\ procs'[p].pc = "idle"

\* C23: a placement whose read, validation and save are one atomic step,
\* and a save of a row validated against the table as it still is, leave
\* a rack without overlap, whatever the other process has
\* in progress; two overlapping devices only come about by the save of a
\* row that was validated before the other process saved its own, and
\* that state is reachable.
C23_OverlapOnlyByInterleaving ==
    [][/\ (AtomicStep /\ NoOverlap(devices, device_types))
             => NoOverlap(devices', device_types')
       /\ (NoOverlap(devices, device_types) /\ ~NoOverlap(devices', device_types'))
             => StaleCommit
      ]_vars

\* both processes have saved their device and the two devices overlap
C23_Witness ==
    /\ DOMAIN devices = DevicePks
    /\ \A p \in Procs : procs[p].pc = "idle"
    /\ devices[1].position # devices[2].position
    /\ ~NoOverlap(devices, device_types)

====
